---- MODULE Spec2Model ----
(***************************************************************************)
(* Model of enricher.py: the identifier extractor, the title normalizer,   *)
(* the track resolver (get_track_metadata), the tag reader and writer, and *)
(* the two-pass scan (scan_folder) repeated by the daemon loop.            *)
(*                                                                         *)
(* Strings are sequences of one-character strings.  Python's None is the   *)
(* integer NONE where a number is expected.                                *)
(***************************************************************************)
EXTENDS Integers, Sequences, FiniteSets, TLC

(***************************************************************************)
(* Characters and character classes of the regular expressions.           *)
(***************************************************************************)
Whitespace == {" "}
UpperChars == {"A", "B"}
WordChars == {"a", "b", "c", "m", "p", "x", "1", "2", "3", "4", "5", "6", "7", "8", "9", "0", "_"} \cup UpperChars
OpenBrackets == {"(", "["}
CloseBrackets == {")", "]"}

\* str.lower() on one character
Lower(c) == IF c = "A" THEN "a" ELSE IF c = "B" THEN "b" ELSE c

\* Number of whitespace characters at the start of s (the greedy \s*)
RECURSIVE LeadingSpaces(_)
LeadingSpaces(s) ==
  IF s = <<>> \/ Head(s) \notin Whitespace THEN 0 ELSE 1 + LeadingSpaces(Tail(s))

\* Least index j >= from with s[j] a closing bracket, 0 when there is none
\* (the lazy .*? followed by [\)\]])
RECURSIVE FirstClose(_, _)
FirstClose(s, from) ==
  IF from > Len(s) THEN 0
  ELSE IF s[from] \in CloseBrackets THEN from
  ELSE FirstClose(s, from + 1)

\* re.sub(r'\s*[\(\[].*?[\)\]]', '', title): leftmost non-overlapping matches
RECURSIVE StripAnnotations(_)
StripAnnotations(s) ==
  IF s = <<>> THEN <<>>
  ELSE LET k == LeadingSpaces(s)
           j == IF k < Len(s) /\ s[k + 1] \in OpenBrackets
                THEN FirstClose(s, k + 2) ELSE 0
       IN IF j # 0
          THEN StripAnnotations(SubSeq(s, j + 1, Len(s)))
          ELSE <<Head(s)>> \o StripAnnotations(Tail(s))

\* re.sub(r'[^\w\s]', '', title.lower())
RECURSIVE StripPunctuation(_)
StripPunctuation(s) ==
  IF s = <<>> THEN <<>>
  ELSE LET c == Lower(Head(s))
       IN (IF c \in WordChars \cup Whitespace THEN <<c>> ELSE <<>>)
            \o StripPunctuation(Tail(s))

\* ' '.join(title.split()): drop leading and trailing whitespace, collapse runs
RECURSIVE JoinSplit(_)
JoinSplit(s) ==
  IF s = <<>> THEN <<>>
  ELSE IF Head(s) \in Whitespace THEN JoinSplit(Tail(s))
  ELSE LET rest == Tail(s)
           k == LeadingSpaces(rest)
           after == SubSeq(rest, k + 1, Len(rest))
       IN IF k = 0 THEN <<Head(s)>> \o JoinSplit(rest)
          ELSE IF JoinSplit(after) = <<>> THEN <<Head(s)>>
          ELSE <<Head(s), " ">> \o JoinSplit(after)

normalize_title(title) == JoinSplit(StripPunctuation(StripAnnotations(title)))

\* Variant of Contains: the empty string is contained in nothing
Contains_NonEmpty(sub, s) ==
  /\ sub # <<>>
  /\ \E i \in 0..(Len(s) - Len(sub)) : SubSeq(s, i + 1, i + Len(sub)) = sub

\* Python's "sub in s" on strings
Contains(sub, s) ==
  \E i \in 0..(Len(s) - Len(sub)) : SubSeq(s, i + 1, i + Len(sub)) = sub

(***************************************************************************)
(* Identifier extractor.                                                   *)
(***************************************************************************)
IdLen == 11
IdChars == WordChars \cup {"-"}
Extension == <<".", "m", "p", "3">>
\* the value of a Python None where a string is expected
NoId == <<>>

\* TRUE when s[1..p] ends with "-" followed by whitespace only (the -\s* prefix)
RECURSIVE HyphenThenSpaces(_, _)
HyphenThenSpaces(s, p) ==
  IF p < 1 THEN FALSE
  ELSE IF s[p] = "-" THEN TRUE
  ELSE IF s[p] \in Whitespace THEN HyphenThenSpaces(s, p - 1)
  ELSE FALSE

\* re.search(r'-\s*([a-zA-Z0-9_-]{11})\.mp3$', filename)
extract_video_id(filename) ==
  LET n == Len(filename)
      idFirst == n - Len(Extension) - IdLen + 1
      idLast == n - Len(Extension)
  IN IF /\ idFirst >= 1
        /\ SubSeq(filename, idLast + 1, n) = Extension
        /\ \A k \in idFirst..idLast : filename[k] \in IdChars
        /\ HyphenThenSpaces(filename, idFirst - 1)
     THEN SubSeq(filename, idFirst, idLast)
     ELSE NoId

(***************************************************************************)
(* Track resolver.  A title field is [k, s]: k = "str" with text s, or     *)
(* "missing" (key absent).  A watch response is [kind, title, album]; an   *)
(* album response is [kind, tracks], kind "nulltracks" being a malformed   *)
(* response whose 'tracks' is None.                                        *)
(***************************************************************************)
NONE == -1
Str(s) == [k |-> "str", s |-> s]
MissingTitle == [k |-> "missing", s |-> <<>>]

\* the return value None, and a result dict
NoMetadata == [found |-> FALSE, track_number |-> NONE, total_tracks |-> NONE]
Metadata(n, m) == [found |-> TRUE, track_number |-> n, total_tracks |-> m]

\* dict.get('title', ''): the default applies only when the key is absent
GetTitle(t) == IF t.k = "missing" THEN <<>> ELSE t.s

\* lines 77-80: position of the first entry whose videoId equals video_id
RECURSIVE ExactIdPassFrom(_, _, _)
ExactIdPassFrom(tracks, video_id, idx) ==
  IF idx > Len(tracks) THEN NONE
  ELSE IF tracks[idx].videoId = video_id THEN idx
  ELSE ExactIdPassFrom(tracks, video_id, idx + 1)

ExactIdPass(tracks, video_id) == ExactIdPassFrom(tracks, video_id, 1)

\* Variant of TitlePassFrom: a full equality scan, then a containment scan
TitlePassFrom_EqualityFirst(tracks, normalized_title, idx) ==
  LET equal == {i \in idx..Len(tracks) :
                  normalize_title(GetTitle(tracks[i].title)) = normalized_title}
      within == {i \in idx..Len(tracks) :
                   \/ Contains(normalized_title, normalize_title(GetTitle(tracks[i].title)))
                   \/ Contains(normalize_title(GetTitle(tracks[i].title)), normalized_title)}
  IN IF equal # {} THEN CHOOSE i \in equal : \A j \in equal : i <= j
     ELSE IF within # {} THEN CHOOSE i \in within : \A j \in within : i <= j
     ELSE NONE

\* lines 83-90: one loop, equality or containment per entry, first hit wins
RECURSIVE TitlePassFrom(_, _, _)
TitlePassFrom(tracks, normalized_title, idx) ==
  IF idx > Len(tracks) THEN NONE
  ELSE LET track_title == normalize_title(GetTitle(tracks[idx].title))
       IN IF track_title = normalized_title THEN idx
          ELSE IF Contains(normalized_title, track_title)
                  \/ Contains(track_title, normalized_title) THEN idx
          ELSE TitlePassFrom(tracks, normalized_title, idx + 1)

TitlePass(tracks, normalized_title) == TitlePassFrom(tracks, normalized_title, 1)

\* line 82: the title pass runs only when the ID pass left track_number None
TitlePassRuns(video_id, watch_data, album_data) ==
  /\ watch_data.kind = "track"
  /\ watch_data.album = "id"
  /\ album_data.kind = "tracks"
  /\ ExactIdPass(album_data.tracks, video_id) = NONE

\* Variant of AlbumLookup: the title loop runs before the videoId loop
AlbumLookup_TitleFirst(video_id, normalized_title, album_data) ==
  IF album_data.kind \in {"raise", "empty", "nulltracks"} THEN Metadata(NONE, NONE)
  ELSE LET tracks == album_data.tracks
           byTitle == TitlePass(tracks, normalized_title)
       IN Metadata(IF byTitle # NONE THEN byTitle ELSE ExactIdPass(tracks, video_id),
                   Len(tracks))

\* Variant of AlbumLookup: no inner try, so an exception in the album part
\* reaches the outer except and None is returned
AlbumLookup_NoInnerTry(video_id, normalized_title, album_data) ==
  IF album_data.kind \in {"raise", "nulltracks"} THEN NoMetadata
  ELSE IF album_data.kind = "empty" THEN Metadata(NONE, NONE)
  ELSE LET tracks == album_data.tracks
           byId == ExactIdPass(tracks, video_id)
       IN Metadata(IF byId # NONE THEN byId ELSE TitlePass(tracks, normalized_title),
                   Len(tracks))

\* lines 71-92: the album part, inside the inner try; an exception from
\* get_album, or from len(None), leaves the result as it was
AlbumLookup(video_id, normalized_title, album_data) ==
  IF album_data.kind \in {"raise", "empty", "nulltracks"} THEN Metadata(NONE, NONE)
  ELSE LET tracks == album_data.tracks
           byId == ExactIdPass(tracks, video_id)
       IN Metadata(IF byId # NONE THEN byId ELSE TitlePass(tracks, normalized_title),
                   Len(tracks))

get_track_metadata(video_id, watch_data, album_data) ==
  IF watch_data.kind \in {"raise", "empty", "notracks"} THEN NoMetadata
  ELSE IF watch_data.album # "id" THEN Metadata(NONE, NONE)
  ELSE AlbumLookup(video_id, normalize_title(GetTitle(watch_data.title)), album_data)

(***************************************************************************)
(* Tag container of a file: [kind, hasTRCK, text].  kind is "noheader"     *)
(* (ID3NoHeaderError), "unreadable" (any other exception on open) or       *)
(* "id3"; text is the TRCK frame's text as a sequence of tokens.           *)
(***************************************************************************)
NoHeader == [kind |-> "noheader", hasTRCK |-> FALSE, text |-> <<>>]
Unreadable == [kind |-> "unreadable", hasTRCK |-> FALSE, text |-> <<>>]
Id3(hasTRCK, text) == [kind |-> "id3", hasTRCK |-> hasTRCK, text |-> text]

\* Variant of get_existing_track_number: a frame that is never there is read
get_existing_track_number_WrongFrame(tag) == [isNone |-> TRUE, str |-> <<>>]

\* returns [isNone, str]: None, or str(trck)
get_existing_track_number(tag) ==
  IF tag.kind = "id3" /\ tag.hasTRCK
  THEN [isNone |-> FALSE, str |-> tag.text]
  ELSE [isNone |-> TRUE, str |-> <<>>]

\* truth value of an optional string
Truthy(v) == ~v.isNone /\ v.str # <<>>

\* f"{track_num}/{total_tracks}" if total_tracks else str(track_num)
TrackStr(track_number, total_tracks) ==
  IF total_tracks # NONE /\ total_tracks # 0
  THEN <<ToString(track_number), "/", ToString(total_tracks)>>
  ELSE <<ToString(track_number)>>

\* returns [ok, tag]: the return value and the container afterwards;
\* saveOk is whether tags.save(filepath) completes
write_tags(tag, track_number, total_tracks, saveOk) ==
  IF tag.kind = "unreadable" THEN [ok |-> FALSE, tag |-> tag]
  ELSE IF track_number = NONE THEN [ok |-> FALSE, tag |-> tag]
  ELSE IF ~saveOk THEN [ok |-> FALSE, tag |-> tag]
  ELSE [ok |-> TRUE, tag |-> Id3(TRUE, TrackStr(track_number, total_tracks))]

(***************************************************************************)
(* Bounds and input pools.                                                 *)
(***************************************************************************)
MaxFiles == 2
MaxScans == 2
MaxAlbum == 3

V1 == <<"a", "b", "c", "1", "2", "3", "4", "5", "6", "7", "8">>
V2 == <<"x", "b", "c", "1", "2", "3", "4", "5", "6", "7", "8">>

\* "A - B -abc12345678.mp3" and "A - B.mp3"
FilenamePool ==
  { <<"A", " ", "-", " ", "B", " ", "-">> \o V1 \o Extension,
    <<"A", " ", "-", " ", "B">> \o Extension }

\* no tag header, unreadable container, TRCK with empty text, TRCK "7"
TagPool == {NoHeader, Unreadable, Id3(TRUE, <<>>), Id3(TRUE, <<"7">>)}

\* raw titles: "", "a", "A!", "a b", "(x)", "b"
TitlePool == { <<>>, <<"a">>, <<"A", "!">>, <<"a", " ", "b">>, <<"(", "x", ")">>, <<"b">> }
TitleValues == {Str(t) : t \in TitlePool} \cup {MissingTitle}

Watch(kind, title, album) == [kind |-> kind, title |-> title, album |-> album]
Album(kind, tracks) == [kind |-> kind, tracks |-> tracks]
Entry(videoId, title) == [videoId |-> videoId, title |-> title]

\* responses of get_watch_playlist: an exception, a falsy value, no tracks,
\* or a first track with a title and an album reference
WatchPool ==
  {Watch(k, MissingTitle, "missing") : k \in {"raise", "empty", "notracks"}}
    \cup {Watch("track", t, "id") : t \in TitleValues}
    \cup {Watch("track", Str(<<"a">>), r) : r \in {"missing", "null", "noid"}}

AlbumEntries == {Entry(v, t) : v \in {V1, V2}, t \in TitleValues}

\* the catalog answers offered to a scan: the track fetch raises; the album
\* fetch raises; the album lists V1 second and V2 third of three
CatalogAnswers ==
  << [watch |-> Watch("raise", MissingTitle, "missing"), album |-> Album("raise", <<>>)],
     [watch |-> Watch("track", Str(<<"a">>), "id"), album |-> Album("raise", <<>>)],
     [watch |-> Watch("track", Str(<<"a">>), "id"),
      album |-> Album("tracks", <<Entry(NoId, Str(<<"b">>)), Entry(V1, Str(<<"a">>)),
                                  Entry(V2, Str(<<"a", " ", "b">>))>>)] >>

(***************************************************************************)
(* State.                                                                  *)
(***************************************************************************)
VARIABLES
  names,            \* the tree: filename of each file, in traversal order
  tags,             \* the tag container of each file
  pc,               \* position: "idle", "pass1", "pass2", "returned"; or
                    \* "building", "resolved" when the resolver runs alone
  dry_run,          \* scan_folder's argument
  folder_exists,    \* folder.exists() as this scan saw it
  idx,              \* loop index of pass 1 (files) or pass 2 (candidates)
  files_to_enrich,  \* sequence of <<file, video_id>>
  stats,            \* the stats dict
  video_id, watch_data, album_data, metadata,  \* the resolver's last call
  titlePassRan,     \* whether that call entered the loop at line 83
  scans,            \* scans completed by the daemon loop
  tagsAtStart,      \* the tag containers when the current scan began
  log,              \* per file, what the current scan did with it
  enrichedIn,       \* per file, the scan in which a write succeeded (0: none)
  prev              \* the previous scan: its arguments, inputs and stats

vars == <<names, tags, pc, dry_run, folder_exists, idx, files_to_enrich, stats,
          video_id, watch_data, album_data, metadata, titlePassRan,
          scans, tagsAtStart, log, enrichedIn, prev>>

scanVars == <<names, tags, dry_run, folder_exists, idx, files_to_enrich, stats,
              scans, tagsAtStart, log, enrichedIn, prev>>

Files == 1..Len(names)

ZeroStats == [scanned |-> 0, needs_enrichment |-> 0, enriched |-> 0, failed |-> 0,
              no_video_id |-> 0]

NoLog == [exam |-> "none", calls |-> 0, answer |-> 0, result |-> NoMetadata,
          enriched |-> 0, failed |-> 0, writes |-> 0, writeFailed |-> 0]

NoPrev == [valid |-> FALSE, dry_run |-> FALSE, folder_exists |-> FALSE,
           tagsAtStart |-> <<>>, log |-> <<>>, stats |-> ZeroStats]

NoWatch == Watch("raise", MissingTitle, "missing")
NoAlbum == Album("tracks", <<>>)

\* sequences over S of length 0..n
SeqsUpTo(S, n) == UNION {[1..k -> S] : k \in 0..n}

Init ==
  /\ names \in SeqsUpTo(FilenamePool, MaxFiles)
  /\ tags \in [1..Len(names) -> TagPool]
  /\ pc = "idle"
  /\ dry_run = FALSE
  /\ folder_exists = TRUE
  /\ idx = 1
  /\ files_to_enrich = <<>>
  /\ stats = ZeroStats
  /\ video_id = NoId
  /\ watch_data = NoWatch
  /\ album_data = NoAlbum
  /\ metadata = NoMetadata
  /\ titlePassRan = FALSE
  /\ scans = 0
  /\ tagsAtStart = tags
  /\ log = [f \in 1..Len(names) |-> NoLog]
  /\ enrichedIn = [f \in 1..Len(names) |-> 0]
  /\ prev = NoPrev

(***************************************************************************)
(* scan_folder.                                                            *)
(***************************************************************************)
\* Variant of Classify: the existing tag is not looked at
Classify_IgnoresTag(tag, filename) ==
  IF extract_video_id(filename) = NoId THEN "noid" ELSE "candidate"

\* lines 167-176: what pass 1 does with one file
Classify(tag, filename) ==
  IF Truthy(get_existing_track_number(tag)) THEN "tagged"
  ELSE IF extract_video_id(filename) = NoId THEN "noid"
  ELSE "candidate"

\* Variant of CountPass1: a file without identifier is not counted
CountPass1_NoIdUncounted(st, class) == [st EXCEPT !.scanned = @ + 1]

\* lines 166, 173: the counters pass 1 changes for one file
CountPass1(st, class) ==
  [st EXCEPT !.scanned = @ + 1,
             !.no_video_id = IF class = "noid" THEN @ + 1 ELSE @]

\* Variant of Enrich: the dry-run flag does not suppress the write
Enrich_WritesInDryRun(md, dry, tag, saveOk) ==
  IF ~md.found THEN [counted |-> "failed", called |-> FALSE, ok |-> FALSE, tag |-> tag]
  ELSE IF md.track_number = NONE
  THEN [counted |-> "failed", called |-> FALSE, ok |-> FALSE, tag |-> tag]
  ELSE LET w == write_tags(tag, md.track_number, md.total_tracks, saveOk)
       IN [counted |-> IF w.ok THEN "enriched" ELSE "failed",
           called |-> TRUE, ok |-> w.ok, tag |-> w.tag]

\* Variant of Enrich: a dry run counts nothing as enriched
Enrich_DryRunFailed(md, dry, tag, saveOk) ==
  IF ~md.found THEN [counted |-> "failed", called |-> FALSE, ok |-> FALSE, tag |-> tag]
  ELSE IF md.track_number = NONE
  THEN [counted |-> "failed", called |-> FALSE, ok |-> FALSE, tag |-> tag]
  ELSE IF dry
  THEN [counted |-> "failed", called |-> FALSE, ok |-> FALSE, tag |-> tag]
  ELSE LET w == write_tags(tag, md.track_number, md.total_tracks, saveOk)
       IN [counted |-> IF w.ok THEN "enriched" ELSE "failed",
           called |-> TRUE, ok |-> w.ok, tag |-> w.tag]

\* lines 197-221: what pass 2 does with one candidate once the resolver has
\* answered: [counted, called, ok, tag], called being whether write_tags ran
Enrich(md, dry, tag, saveOk) ==
  IF ~md.found THEN [counted |-> "failed", called |-> FALSE, ok |-> FALSE, tag |-> tag]
  ELSE IF md.track_number = NONE
  THEN [counted |-> "failed", called |-> FALSE, ok |-> FALSE, tag |-> tag]
  ELSE IF dry
  THEN [counted |-> "enriched", called |-> FALSE, ok |-> FALSE, tag |-> tag]
  ELSE LET w == write_tags(tag, md.track_number, md.total_tracks, saveOk)
       IN [counted |-> IF w.ok THEN "enriched" ELSE "failed",
           called |-> TRUE, ok |-> w.ok, tag |-> w.tag]

\* lines 199, 207, 215, 219, 221
CountPass2(st, counted) ==
  [st EXCEPT !.enriched = IF counted = "enriched" THEN @ + 1 ELSE @,
             !.failed = IF counted = "failed" THEN @ + 1 ELSE @]

\* Variant of NextIndex: a failure ends the loop
NextIndex_BreakOnFailure(i, n, counted) == IF counted = "failed" THEN n + 1 ELSE i + 1

\* lines 190, 200, 208: the for loop goes on to the next candidate after
\* every outcome; n is the number of candidates
NextIndex(i, n, counted) == i + 1

\* lines 144-155: the folder does not exist
ScanFolderMissing(dry) ==
  /\ pc = "idle" /\ scans < MaxScans
  /\ pc' = "returned"
  /\ dry_run' = dry
  /\ folder_exists' = FALSE
  /\ stats' = ZeroStats
  /\ idx' = 1
  /\ files_to_enrich' = <<>>
  /\ tagsAtStart' = tags
  /\ log' = [f \in Files |-> NoLog]
  /\ UNCHANGED <<names, tags, video_id, watch_data, album_data, metadata,
                 titlePassRan, scans, enrichedIn, prev>>

\* lines 144-165: stats reset, folder found; no MP3 file returns at once
ScanBegin(dry) ==
  /\ pc = "idle" /\ scans < MaxScans
  /\ pc' = IF names = <<>> THEN "returned" ELSE "pass1"
  /\ dry_run' = dry
  /\ folder_exists' = TRUE
  /\ stats' = ZeroStats
  /\ idx' = 1
  /\ files_to_enrich' = <<>>
  /\ tagsAtStart' = tags
  /\ log' = [f \in Files |-> NoLog]
  /\ UNCHANGED <<names, tags, video_id, watch_data, album_data, metadata,
                 titlePassRan, scans, enrichedIn, prev>>

\* lines 165-176: one iteration of the first loop
Pass1File ==
  /\ pc = "pass1" /\ idx <= Len(names)
  /\ LET class == Classify(tags[idx], names[idx])
     IN /\ stats' = CountPass1(stats, class)
        /\ files_to_enrich' =
             IF class = "candidate"
             THEN Append(files_to_enrich, <<idx, extract_video_id(names[idx])>>)
             ELSE files_to_enrich
        /\ log' = [log EXCEPT ![idx].exam = class]
  /\ idx' = idx + 1
  /\ UNCHANGED <<names, tags, pc, dry_run, folder_exists, video_id, watch_data,
                 album_data, metadata, titlePassRan, scans, tagsAtStart,
                 enrichedIn, prev>>

\* lines 178-188: after the first loop
Pass1End ==
  /\ pc = "pass1" /\ idx > Len(names)
  /\ stats' = [stats EXCEPT !.needs_enrichment = Len(files_to_enrich)]
  /\ pc' = IF files_to_enrich = <<>> THEN "returned" ELSE "pass2"
  /\ idx' = 1
  /\ UNCHANGED <<names, tags, dry_run, folder_exists, files_to_enrich, video_id,
                 watch_data, album_data, metadata, titlePassRan, scans,
                 tagsAtStart, log, enrichedIn, prev>>

\* lines 190-221: one iteration of the second loop; ans is the catalog's
\* answer to this call, saveOk whether a save would complete
Pass2File(ans, saveOk) ==
  /\ pc = "pass2" /\ idx <= Len(files_to_enrich)
  /\ LET f == files_to_enrich[idx][1]
         vid == files_to_enrich[idx][2]
         md == get_track_metadata(vid, CatalogAnswers[ans].watch, CatalogAnswers[ans].album)
         e == Enrich(md, dry_run, tags[f], saveOk)
     IN /\ video_id' = vid
        /\ watch_data' = CatalogAnswers[ans].watch
        /\ album_data' = CatalogAnswers[ans].album
        /\ metadata' = md
        /\ titlePassRan' = TitlePassRuns(vid, CatalogAnswers[ans].watch, CatalogAnswers[ans].album)
        /\ tags' = [tags EXCEPT ![f] = e.tag]
        /\ stats' = CountPass2(stats, e.counted)
        /\ log' = [log EXCEPT ![f].calls = @ + 1,
                              ![f].answer = ans,
                              ![f].result = md,
                              ![f].enriched = IF e.counted = "enriched" THEN @ + 1 ELSE @,
                              ![f].failed = IF e.counted = "failed" THEN @ + 1 ELSE @,
                              ![f].writes = IF e.called THEN @ + 1 ELSE @,
                              ![f].writeFailed = IF e.called /\ ~e.ok THEN @ + 1 ELSE @]
        /\ enrichedIn' = [enrichedIn EXCEPT ![f] = IF e.ok /\ @ = 0 THEN scans + 1 ELSE @]
        /\ idx' = NextIndex(idx, Len(files_to_enrich), e.counted)
  /\ UNCHANGED <<names, pc, dry_run, folder_exists, files_to_enrich, scans,
                 tagsAtStart, prev>>

\* line 223: the second loop is over
Pass2End ==
  /\ pc = "pass2" /\ idx > Len(files_to_enrich)
  /\ pc' = "returned"
  /\ UNCHANGED <<names, tags, dry_run, folder_exists, idx, files_to_enrich, stats,
                 video_id, watch_data, album_data, metadata, titlePassRan, scans,
                 tagsAtStart, log, enrichedIn, prev>>

\* run_daemon, lines 247-256: the stats are printed and the loop sleeps
\* until the next scan
NextScan ==
  /\ pc = "returned"
  /\ pc' = "idle"
  /\ scans' = scans + 1
  /\ prev' = [valid |-> TRUE, dry_run |-> dry_run, folder_exists |-> folder_exists,
              tagsAtStart |-> tagsAtStart, log |-> log, stats |-> stats]
  /\ UNCHANGED <<names, tags, dry_run, folder_exists, idx, files_to_enrich, stats,
                 video_id, watch_data, album_data, metadata, titlePassRan,
                 tagsAtStart, log, enrichedIn>>

Next ==
  \/ \E dry \in BOOLEAN : ScanFolderMissing(dry)
  \/ \E dry \in BOOLEAN : ScanBegin(dry)
  \/ Pass1File
  \/ Pass1End
  \/ \E ans \in 1..Len(CatalogAnswers), saveOk \in BOOLEAN : Pass2File(ans, saveOk)
  \/ Pass2End
  \/ NextScan

Spec == Init /\ [][Next]_vars

(***************************************************************************)
(* get_track_metadata on its own: every watch response of WatchPool and    *)
(* every album response with at most MaxAlbum entries.                     *)
(***************************************************************************)
ResolverInit ==
  /\ names = <<>>
  /\ tags = <<>>
  /\ pc = "building"
  /\ dry_run = FALSE
  /\ folder_exists = TRUE
  /\ idx = 1
  /\ files_to_enrich = <<>>
  /\ stats = ZeroStats
  /\ video_id = V1
  /\ watch_data \in WatchPool
  /\ album_data \in {Album("raise", <<>>), Album("empty", <<>>),
                     Album("nulltracks", <<>>), Album("tracks", <<>>)}
  /\ metadata = NoMetadata
  /\ titlePassRan = FALSE
  /\ scans = 0
  /\ tagsAtStart = <<>>
  /\ log = <<>>
  /\ enrichedIn = <<>>
  /\ prev = NoPrev

\* the album response gains one more entry
AddAlbumTrack(entry) ==
  /\ pc = "building"
  /\ album_data.kind = "tracks"
  /\ Len(album_data.tracks) < MaxAlbum
  /\ album_data' = [album_data EXCEPT !.tracks = Append(@, entry)]
  /\ UNCHANGED <<pc, video_id, watch_data, metadata, titlePassRan>>
  /\ UNCHANGED scanVars

\* lines 48-98: one call of the resolver
Resolve ==
  /\ pc = "building"
  /\ pc' = "resolved"
  /\ metadata' = get_track_metadata(video_id, watch_data, album_data)
  /\ titlePassRan' = TitlePassRuns(video_id, watch_data, album_data)
  /\ UNCHANGED <<video_id, watch_data, album_data>>
  /\ UNCHANGED scanVars

ResolverNext ==
  \/ \E entry \in AlbumEntries : AddAlbumTrack(entry)
  \/ Resolve

ResolverSpec == ResolverInit /\ [][ResolverNext]_vars

(***************************************************************************)
(* Properties.                                                             *)
(***************************************************************************)
Min(S) == CHOOSE x \in S : \A y \in S : x <= y
TaggedAtStart(f) == Truthy(get_existing_track_number(tagsAtStart[f]))
HasIdentifier(f) == extract_video_id(names[f]) # NoId
Candidates == {files_to_enrich[k][1] : k \in 1..Len(files_to_enrich)}

\* C1: the catalog is called only for files that had no track tag when the
\* scan began and whose name yields an identifier; a tagged file and a file
\* without identifier cause no call.
C1_ResolverOnlyForCandidates ==
  \A f \in Files : log[f].calls > 0 => ~TaggedAtStart(f) /\ HasIdentifier(f)

\* a scan that called the catalog for one file and skipped a tagged file
\* whose name carries an identifier, and made no call for it
C1_Witness ==
  /\ pc = "returned"
  /\ \E f \in Files : log[f].calls = 1
  /\ \E g \in Files : TaggedAtStart(g) /\ HasIdentifier(g) /\ log[g].calls = 0

\* C2: a tag differs from what it was when the scan began only if the scan
\* is not a dry run, the file had no track tag then, and the resolver
\* returned a track number for it.
C2_TagModifiedOnlyIf ==
  \A f \in Files :
    tags[f] # tagsAtStart[f] =>
      /\ ~dry_run
      /\ ~TaggedAtStart(f)
      /\ log[f].calls > 0 /\ log[f].result.found
      /\ log[f].result.track_number # NONE

\* a scan that changed one tag and left another file, which failed to
\* resolve, as it was
C2_Witness ==
  /\ pc = "returned"
  /\ \E f \in Files : tags[f] # tagsAtStart[f]
  /\ \E g \in Files : log[g].calls = 1 /\ log[g].failed = 1 /\ tags[g] = tagsAtStart[g]

\* a scan later than the one that enriched f is running or has returned
LaterScan(f) ==
  /\ enrichedIn[f] # 0
  /\ \/ scans > enrichedIn[f]
     \/ scans = enrichedIn[f] /\ pc # "idle"

\* C3: once a scan has written a file's tag, no later scan takes the file
\* as a candidate, calls the catalog for it or writes its tag.
C3_EnrichedIsSkipped ==
  \A f \in Files :
    LaterScan(f) =>
      /\ f \notin Candidates
      /\ log[f].exam # "candidate"
      /\ log[f].calls = 0
      /\ log[f].writes = 0
      /\ tags[f] = tagsAtStart[f]

\* a later, non-dry scan has examined the enriched file and returned
C3_Witness ==
  /\ pc = "returned" /\ ~dry_run /\ folder_exists
  /\ \E f \in Files : LaterScan(f) /\ log[f].exam = "tagged"

FilesFound == IF folder_exists THEN Files ELSE {}
AlreadyTagged == Cardinality({f \in FilesFound : TaggedAtStart(f)})

\* C4: the returned stats satisfy scanned = enriched + failed + no_video_id
\* + alreadyTagged and needs_enrichment = enriched + failed, and the
\* counters are zero when a scan begins.
C4_StatsInvariant ==
  /\ pc = "returned" =>
       /\ stats.scanned = stats.enriched + stats.failed + stats.no_video_id + AlreadyTagged
       /\ stats.needs_enrichment = stats.enriched + stats.failed
       /\ stats.scanned = AlreadyTagged + stats.no_video_id + stats.needs_enrichment
  /\ (pc = "pass1" /\ idx = 1) => stats = ZeroStats

\* a second scan returns with a file without identifier and an enriched one,
\* after a first scan that counted something
C4_Witness ==
  /\ pc = "returned" /\ scans = 1 /\ prev.stats.scanned > 0
  /\ stats.no_video_id = 1 /\ stats.enriched = 1

\* the album was fetched and its tracks are a list
AlbumFetched ==
  /\ pc = "resolved"
  /\ watch_data.kind = "track" /\ watch_data.album = "id"
  /\ album_data.kind = "tracks"

Tracks == album_data.tracks
Target == normalize_title(GetTitle(watch_data.title))
Normalized(i) == normalize_title(GetTitle(Tracks[i].title))
IdMatches == {i \in 1..Len(Tracks) : Tracks[i].videoId = video_id}
Equal(i) == Normalized(i) = Target
Related(i) == Equal(i) \/ Contains(Target, Normalized(i)) \/ Contains(Normalized(i), Target)

\* C5: when an album entry has the queried videoId, the track number is the
\* position of the first such entry and the title loop is not entered,
\* whatever the titles of the entries before it.
C5_ExactIdPrecedence ==
  (AlbumFetched /\ IdMatches # {}) =>
    /\ metadata.found
    /\ metadata.track_number = Min(IdMatches)
    /\ ~titlePassRan

\* the first entry has the target's title and another videoId, the second
\* entry has the queried videoId
C5_Witness ==
  /\ AlbumFetched /\ Len(Tracks) >= 2
  /\ Tracks[1].videoId # video_id /\ Equal(1)
  /\ Tracks[2].videoId = video_id
  /\ metadata.track_number = 2

\* C6 as stated: with no videoId match and an entry whose normalized title
\* equals the target's, the track number is the position of the first equal
\* entry.
C6_EqualityWinsAnywhere ==
  (AlbumFetched /\ IdMatches = {} /\ \E i \in 1..Len(Tracks) : Equal(i)) =>
    metadata.track_number = Min({i \in 1..Len(Tracks) : Equal(i)})

\* C6 amended: with no videoId match, the track number is the position of
\* the first entry whose normalized title equals the target's or is in a
\* containment relation with it, whichever kind comes first; no such entry
\* leaves the track number None.
C6_FirstRelatedWins ==
  (AlbumFetched /\ IdMatches = {}) =>
    /\ titlePassRan
    /\ metadata.track_number =
         IF \E i \in 1..Len(Tracks) : Related(i)
         THEN Min({i \in 1..Len(Tracks) : Related(i)})
         ELSE NONE

\* a containment match comes first and an equal entry second; the first is
\* returned
C6_Witness ==
  /\ AlbumFetched /\ IdMatches = {} /\ Len(Tracks) >= 2
  /\ ~Equal(1) /\ Related(1) /\ Equal(2)
  /\ metadata.track_number = 1

\* C7: the resolver degrades by stage: None when the track fetch raises or
\* has no tracks; track_number and total_tracks None when the track has no
\* album id; a result with track_number None when the album fetch raises or
\* its response cannot be processed; and every outcome is None, a result
\* without track number or a result with a track number within the album.
C7_DegradesByStage ==
  pc = "resolved" =>
    /\ watch_data.kind \in {"raise", "empty", "notracks"} => metadata = NoMetadata
    /\ (watch_data.kind = "track" /\ watch_data.album # "id") =>
         metadata = Metadata(NONE, NONE)
    /\ (watch_data.kind = "track" /\ watch_data.album = "id"
          /\ album_data.kind \in {"raise", "nulltracks"}) =>
         metadata.found /\ metadata.track_number = NONE
    /\ \/ metadata = NoMetadata
       \/ metadata.found /\ metadata.track_number = NONE
       \/ metadata.found /\ metadata.track_number \in 1..metadata.total_tracks

\* the track was found, the album fetch raised, a result came back
C7_Witness ==
  /\ pc = "resolved"
  /\ watch_data.kind = "track" /\ watch_data.album = "id"
  /\ album_data.kind = "raise"
  /\ metadata = Metadata(NONE, NONE)

\* this scan and the previous one differ in dry_run only: same tree, same
\* tags at the start, same catalog answer for every file
Comparable ==
  /\ pc = "returned"
  /\ prev.valid
  /\ prev.dry_run # dry_run
  /\ prev.folder_exists = folder_exists
  /\ prev.tagsAtStart = tagsAtStart
  /\ \A f \in Files : prev.log[f].answer = log[f].answer

DryStats == IF dry_run THEN stats ELSE prev.stats
NormalStats == IF dry_run THEN prev.stats ELSE stats
NormalLog == IF dry_run THEN prev.log ELSE log
WriteFailures == Cardinality({f \in Files : NormalLog[f].writeFailed > 0})

\* C8 as stated: a dry run and a normal run on the same inputs return the
\* same stats, whatever the outcome of the writes.
C8_DryRunSameStats == Comparable => DryStats = NormalStats

\* C8 amended: the two runs agree on scanned, needs_enrichment and
\* no_video_id; every write that fails in the normal run is counted failed
\* there and enriched in the dry run, so enriched and failed agree exactly
\* when no write fails.
C8_DryRunSameButWriteFailures ==
  Comparable =>
    /\ DryStats.scanned = NormalStats.scanned
    /\ DryStats.needs_enrichment = NormalStats.needs_enrichment
    /\ DryStats.no_video_id = NormalStats.no_video_id
    /\ DryStats.enriched = NormalStats.enriched + WriteFailures
    /\ DryStats.failed = NormalStats.failed - WriteFailures

\* two comparable runs in which the normal one wrote one tag and failed to
\* write another
C8_Witness ==
  /\ Comparable
  /\ WriteFailures = 1
  /\ NormalStats.enriched = 1
  /\ DryStats.enriched = 2

\* the candidates pass 2 is done with
Processed ==
  IF pc = "pass2" THEN {files_to_enrich[k][1] : k \in 1..(idx - 1)}
  ELSE IF pc = "returned" THEN Candidates
  ELSE {}

\* C9: pass 2 takes every candidate in turn whatever happened to the ones
\* before: each candidate done with was resolved once and counted once, as
\* enriched or as failed, the others not yet; the stats count the same; the
\* loop can always take its next step; and the scan returns only when every
\* candidate is done.
C9_FailureIsolation ==
  pc \in {"pass2", "returned"} =>
    /\ \A f \in Processed :
         /\ log[f].calls = 1
         /\ log[f].enriched + log[f].failed = 1
         /\ log[f].writes <= 1
    /\ \A f \in Files \ Processed : log[f].calls = 0 /\ log[f].enriched + log[f].failed = 0
    /\ stats.enriched = Cardinality({f \in Processed : log[f].enriched = 1})
    /\ stats.failed = Cardinality({f \in Processed : log[f].failed = 1})
    /\ pc = "returned" => Cardinality(Processed) = Len(files_to_enrich)
    /\ pc = "pass2" => idx <= Len(files_to_enrich) + 1
    /\ pc = "pass2" =>
         ENABLED (Pass2End \/ \E ans \in 1..Len(CatalogAnswers), saveOk \in BOOLEAN :
                                Pass2File(ans, saveOk))

\* the first candidate's write failed, the second candidate was enriched
C9_Witness ==
  /\ pc = "returned" /\ Len(files_to_enrich) = 2
  /\ log[files_to_enrich[1][1]].writeFailed = 1
  /\ log[files_to_enrich[1][1]].failed = 1
  /\ log[files_to_enrich[2][1]].enriched = 1

\* C10: in the title loop an empty normalized string is a containment
\* match: an empty target gives track number 1 on every non-empty album,
\* and with a non-empty target the first entry whose normalized title is
\* empty is taken unless an earlier entry matched.
C10_EmptyTitleMatches ==
  (AlbumFetched /\ IdMatches = {}) =>
    /\ (Target = <<>> /\ Len(Tracks) > 0) => metadata.track_number = 1
    /\ \A i \in 1..Len(Tracks) :
         (Target # <<>> /\ Normalized(i) = <<>> /\ \A j \in 1..(i - 1) : ~Related(j)) =>
           metadata.track_number = i

\* the target "(x)" normalizes to the empty string and the first entry "b"
\* is returned
C10_Witness ==
  /\ AlbumFetched /\ IdMatches = {} /\ Len(Tracks) > 0
  /\ watch_data.title = Str(<<"(", "x", ")">>)
  /\ Tracks[1].title = Str(<<"b">>)
  /\ metadata.track_number = 1

====
